---- MODULE Spec2Model ----
(***************************************************************************)
(* Device directory aggregation layer of the IoT status API:               *)
(*   - repo.list_devices: the two-phase (ledger, then fleet index)         *)
(*     paginated listing with composite cursors;                           *)
(*   - repo.update_device_label: the ledger write / fleet toggle /         *)
(*     compensating ledger write saga;                                     *)
(*   - repo._dump_page / repo._load_page: the composite cursor codec;      *)
(*   - repo.get_device: the single-device lookup over the ledger, the      *)
(*     schema registry, the fleet index and the stream preview;            *)
(*   - repo.export_devices: the unpaged merge of both stores;              *)
(*   - schema_registry.get_schema_by_hash: the lookup of a schema spec by  *)
(*     the hash of its text and provider;                                  *)
(*   - repo._keycloak_group_name / repo._canonicalize_group_name: the      *)
(*     group-name codec;                                                   *)
(*   - keycloak_api._use_service_token: the service-account token cache.   *)
(* Python strings are sequences of one-character strings; an optional      *)
(* value (str | None) is a record [some, v].                               *)
(***************************************************************************)
EXTENDS Integers, Sequences, FiniteSets, TLC

VARIABLES
    ledger,     \* the ledger table, in scan order: a sequence of items
    fleet,      \* the fleet index, in search order: a sequence of things
    lst,        \* the running repo.list_devices call: arguments, locals, position
    sess,       \* the client's paging session over list_devices
    rec,        \* label saga: the ledger item of the updated device
    thing,      \* label saga: the fleet-index side of the updated device
    upd,        \* label saga: the running repo.update_device_label calls
    cur,        \* cursor codec: a composite cursor being dumped and loaded
    get,        \* the running repo.get_device call and the stores' view of its device
    exp,        \* the running repo.export_devices call
    reg,        \* the schema registry's hash index and the running lookup
    grp,        \* group-name codec: a group name being converted there and back
    tok         \* the service-account token cache and the running wrapped call

vars == <<ledger, fleet, lst, sess, rec, thing, upd, cur, get, exp, reg, grp, tok>>
listVars == <<ledger, fleet, lst, sess>>
labelVars == <<rec, thing, upd>>
restVars == <<cur, get, exp, reg, grp, tok>>
\* All variables but the named component's.
exceptCur == <<listVars, labelVars, get, exp, reg, grp, tok>>
exceptGet == <<listVars, labelVars, cur, exp, reg, grp, tok>>
exceptExp == <<lst, sess, labelVars, cur, get, reg, grp, tok>>
exceptReg == <<listVars, labelVars, cur, get, exp, grp, tok>>
exceptGrp == <<listVars, labelVars, cur, get, exp, reg, tok>>
exceptTok == <<listVars, labelVars, cur, get, exp, reg, grp>>

\* ------------------------------------------------------------------ bounds

\* Number of devices in the ledger table.
NDev == 4
\* Largest page size a client asks for.
MaxPageSize == 2
\* Number of concurrent update_device_label callers.
NCallers == 2

\* ----------------------------------------------------------- basic values

None == [some |-> FALSE, v |-> <<>>]
Some(s) == [some |-> TRUE, v |-> s]
\* Python truthiness of a str | None value.
Truthy(o) == o.some /\ o.v # <<>>

Min(a, b) == IF a < b THEN a ELSE b

Digits == <<"1", "2", "3", "4", "5", "6", "7", "8", "9">>
DigitOf(c) == CHOOSE k \in 1..Len(Digits) : Digits[k] = c
IsDigit(c) == \E k \in 1..Len(Digits) : Digits[k] = c

\* model.DeviceCustomLabel; NoLabel is Python's None / a missing attribute.
NoLabel == "NONE"
DEPLOYED == "DEPLOYED"
UNDEPLOYED == "UNDEPLOYED"
PERIODIC_BATCH == "PERIODIC_BATCH"
DEACTIVATED == "DEACTIVATED"
DeviceCustomLabel == {DEPLOYED, UNDEPLOYED, PERIODIC_BATCH, DEACTIVATED}

\* errors.AppError kinds, and the errors of the store clients.
INVALID_CODE == "InvalidArgument"
NOT_FOUND_CODE == "NotFound"
INTERNAL_ERROR_CODE == "InternalError"
ConditionFailed == "ConditionalCheckFailed"
StoreError == "StoreError"
FleetError == "FleetError"
DeviceNotFoundError == "DeviceNotFoundError"

\* ------------------------------------------------------------ group names

Lower(c) == CASE c = "A" -> "a" [] c = "B" -> "b" [] c = "C" -> "c" [] OTHER -> c

\* "-".join(group.lower().split(" ")): every space becomes a hyphen.
_canonicalize_group_name(group) ==
    [i \in 1..Len(group) |-> IF Lower(group[i]) = " " THEN "-" ELSE Lower(group[i])]

_maybe_canonicalize_group_name(group) ==
    IF group.some THEN Some(_canonicalize_group_name(group.v)) ELSE None

\* --------------------------------------------------------------- cursors

\* device_ledger._encode_page of a LastEvaluatedKey: the key of the item at
\* scan position k, serialised; 0 stands for "no key" (None).
_encode_page(k) == IF k = 0 THEN None ELSE Some(<<"e", Digits[k]>>)

\* device_ledger._decode_page: [ok, pos]; pos = 0 is None. A string that is
\* not a serialised key raises invalid_argument (ok = FALSE).
_decode_page(page) ==
    IF ~Truthy(page) THEN [ok |-> TRUE, pos |-> 0]
    ELSE IF Len(page.v) = 2 /\ page.v[1] = "e" /\ IsDigit(page.v[2])
         THEN [ok |-> TRUE, pos |-> DigitOf(page.v[2])]
         ELSE [ok |-> FALSE, pos |-> 0]

\* The fleet index's own nextToken for "continue after position k".
FleetToken(k) == <<"t", Digits[k]>>
IsFleetToken(s) == Len(s) = 2 /\ s[1] = "t" /\ IsDigit(s[2])

\* A dump that leaves the source tag out.
_dump_page_Untagged(isLedger, page) == page

\* repo._dump_page
_dump_page(isLedger, page) == IF isLedger THEN <<"l">> \o page ELSE <<"f">> \o page

\* A loader that takes a cursor with an unknown tag for a first page.
_load_page_Lenient(page) ==
    IF ~Truthy(page) THEN [ok |-> TRUE, ledger_page |-> None, fleet_page |-> None]
    ELSE IF page.v[1] = "l"
         THEN [ok |-> TRUE, ledger_page |-> Some(Tail(page.v)), fleet_page |-> None]
    ELSE IF page.v[1] = "f"
         THEN [ok |-> TRUE, ledger_page |-> None, fleet_page |-> Some(Tail(page.v))]
    ELSE [ok |-> TRUE, ledger_page |-> None, fleet_page |-> None]

\* A loader that keeps the source tag on the inner cursor.
_load_page_KeepingTag(page) ==
    IF ~Truthy(page) THEN [ok |-> TRUE, ledger_page |-> None, fleet_page |-> None]
    ELSE IF page.v[1] = "l"
         THEN [ok |-> TRUE, ledger_page |-> Some(page.v), fleet_page |-> None]
    ELSE IF page.v[1] = "f"
         THEN [ok |-> TRUE, ledger_page |-> None, fleet_page |-> Some(page.v)]
    ELSE [ok |-> FALSE, ledger_page |-> None, fleet_page |-> None]

\* repo._load_page: [ok, ledger_page, fleet_page]
_load_page(page) ==
    IF ~Truthy(page) THEN [ok |-> TRUE, ledger_page |-> None, fleet_page |-> None]
    ELSE IF page.v[1] = "l"
         THEN [ok |-> TRUE, ledger_page |-> Some(Tail(page.v)), fleet_page |-> None]
    ELSE IF page.v[1] = "f"
         THEN [ok |-> TRUE, ledger_page |-> None, fleet_page |-> Some(Tail(page.v))]
    ELSE [ok |-> FALSE, ledger_page |-> None, fleet_page |-> None]

\* ---------------------------------------------------------------- stores

DeviceName(i) == <<"d", Digits[i]>>

\* Canonical group names as the stores hold them, and a user-facing spelling.
ProviderP == <<"a", "-", "b">>
ProviderQ == <<"c">>
UserProviderP == <<"A", " ", "b">>

\* The kinds of device the stores hold: the ledger attributes, and whether the
\* fleet index knows the device ("absent", "active", or member of the
\* deactivated group).
DeviceKinds ==
    { [provStatus |-> FALSE, customLabel |-> NoLabel,     jwtGroup |-> ProviderP, fleet |-> "absent"],
      [provStatus |-> TRUE,  customLabel |-> DEPLOYED,    jwtGroup |-> ProviderP, fleet |-> "active"],
      [provStatus |-> TRUE,  customLabel |-> DEACTIVATED, jwtGroup |-> ProviderP, fleet |-> "deactivated"],
      [provStatus |-> FALSE, customLabel |-> DEPLOYED,    jwtGroup |-> ProviderQ, fleet |-> "absent"],
      [provStatus |-> FALSE, customLabel |-> NoLabel,     jwtGroup |-> ProviderP, fleet |-> "active"] }

LedgerItem(i, kind) ==
    [serialNumber |-> DeviceName(i), provStatus |-> kind.provStatus,
     customLabel |-> kind.customLabel, jwtGroup |-> kind.jwtGroup]

FleetThing(i, kind) ==
    [thingName |-> DeviceName(i), SensorProvider |-> kind.jwtGroup,
     deactivated |-> (kind.fleet = "deactivated")]

RECURSIVE FleetOf(_, _)
FleetOf(kinds, i) ==
    IF i > Len(kinds) THEN <<>>
    ELSE (IF kinds[i].fleet = "absent" THEN <<>> ELSE <<FleetThing(i, kinds[i])>>)
         \o FleetOf(kinds, i + 1)

\* A scan filter that forgets the provisioning-status condition.
_build_scan_params_AnyProvisioning(provider, name_like, label, unprovisioned_only) ==
    [jwtGroup |-> provider,
     serialNumber |-> IF Truthy(name_like) THEN name_like ELSE None,
     customLabelOp |-> IF label # NoLabel THEN "EQ" ELSE "NE",
     customLabel |-> IF label # NoLabel THEN label ELSE DEACTIVATED,
     provStatusNull |-> FALSE]

\* device_ledger._build_scan_params: the scan filter of a listing.
_build_scan_params(provider, name_like, label, unprovisioned_only) ==
    [jwtGroup |-> provider,
     serialNumber |-> IF Truthy(name_like) THEN name_like ELSE None,
     customLabelOp |-> IF label # NoLabel THEN "EQ" ELSE "NE",
     customLabel |-> IF label # NoLabel THEN label ELSE DEACTIVATED,
     provStatusNull |-> unprovisioned_only]

IsPrefix(p, s) == Len(p) <= Len(s) /\ SubSeq(s, 1, Len(p)) = p

\* The table's evaluation of the scan filter on one item.
ScanFilterMatches(item, params) ==
    /\ params.jwtGroup.some => item.jwtGroup = params.jwtGroup.v
    /\ params.serialNumber.some => IsPrefix(params.serialNumber.v, item.serialNumber)
    /\ IF params.customLabelOp = "EQ"
       THEN item.customLabel = params.customLabel
       ELSE item.customLabel # params.customLabel
    /\ params.provStatusNull => ~item.provStatus

\* A table whose continuation does not advance: a scan from a key returns
\* no item and the same key again.
TableScan_Stalling(table, start, limit, params) ==
    IF start >= 1 THEN {[Items |-> <<>>, LastEvaluatedKey |-> start]}
    ELSE {[Items |-> <<>>, LastEvaluatedKey |-> 1]}

\* One scan request. With a Limit the table evaluates that many items after
\* position start (or what is left of the table); without one it evaluates
\* as many as fit the response size cap, which is any number of them. It
\* returns the evaluated items that pass the filter, and a
\* LastEvaluatedKey unless it reached the end of the table; when it stopped
\* on the limit exactly at the end it may still return the last item's key.
TableScan(table, start, limit, params) ==
    LET remaining == Len(table) - start
        Evaluated == IF limit > 0 THEN {Min(limit, remaining)} ELSE 1..remaining
        Match(item) == ScanFilterMatches(item, params)
        Keys(m) == IF start + m < Len(table) THEN {start + m}
                   ELSE IF limit > 0 /\ m = limit THEN {0, start + m} ELSE {0}
    IN IF remaining <= 0
       THEN {[Items |-> <<>>, LastEvaluatedKey |-> 0]}
       ELSE UNION { { [Items |-> SelectSeq(SubSeq(table, start + 1, start + m), Match),
                       LastEvaluatedKey |-> k] : k \in Keys(m) } : m \in Evaluated }

\* Number of things a search request returns when it names no maxResults.
SearchPageCap == 2

\* ActiveOnly: the search excludes the members of the deactivated group.
FleetActiveOnly(t, active_only) == active_only => ~t.deactivated

\* fleet_index.list_devices: the things matching the query, in search order.
FleetQueryMatches(t, provider, name_like, active_only) ==
    /\ Truthy(provider) => t.SensorProvider = provider.v
    /\ name_like.some => IsPrefix(name_like.v, t.thingName)
    /\ FleetActiveOnly(t, active_only)

RECURSIVE MatchingAfter(_, _, _, _, _)
\* Positions (in the index order) of the matching things after position k.
MatchingAfter(index, k, provider, name_like, active_only) ==
    IF k >= Len(index) THEN <<>>
    ELSE (IF FleetQueryMatches(index[k + 1], provider, name_like, active_only)
          THEN <<k + 1>> ELSE <<>>)
         \o MatchingAfter(index, k + 1, provider, name_like, active_only)

\* One search request: up to maxResults matching things after the token's
\* position, and a nextToken when more matching things remain.
search_index(index, provider, name_like, active_only, tokenPos, maxResults) ==
    LET all == MatchingAfter(index, tokenPos, provider, name_like, active_only)
        n == Min(maxResults, Len(all))
    IN [things |-> [i \in 1..n |-> index[all[i]]],
        nextToken |-> IF n < Len(all) THEN Some(FleetToken(all[n])) ELSE None]

\* --------------------------------------------------- repo.list_devices

\* A fresh call of repo.list_devices(provider, None, name_like, label, page,
\* page_size): its arguments and its locals before the first line runs.
NewCall(provider, name_like, label, page, page_size) ==
    [pc |-> "begin",
     provider |-> provider, name_like |-> name_like, label |-> label,
     page |-> page, page_size |-> page_size,
     canon_provider |-> None, ledger_page |-> None, fleet_page |-> None,
     scan_page |-> 0, result_size |-> 0, scans |-> 0,
     ledger_items |-> <<>>, fleet_items |-> <<>>, next_page |-> None,
     ledger_next |-> None, ledger_called |-> FALSE, unprovisioned_only |-> FALSE,
     fleet_called |-> FALSE, fleet_page_size |-> 0, fleet_provider |-> None,
     result |-> [kind |-> "none", items |-> <<>>, nextPage |-> None]]

Raised(call, error) ==
    [call EXCEPT !.pc = "done",
                 !.result = [kind |-> error, items |-> <<>>, nextPage |-> None]]

query_ledger_only(call) == call.label # NoLabel

\* A first-page test that forgets the fleet cursor.
LedgerPhaseRuns_IgnoringFleetPage(call, ledger_page, fleet_page) ==
    LET is_first_page == ~Truthy(ledger_page)
    IN query_ledger_only(call) \/ Truthy(ledger_page) \/ is_first_page

\* repo.list_devices, line 41: whether the ledger phase runs.
LedgerPhaseRuns(call, ledger_page, fleet_page) ==
    LET is_first_page == ~Truthy(ledger_page) /\ ~Truthy(fleet_page)
    IN query_ledger_only(call) \/ Truthy(ledger_page) \/ is_first_page

\* repo.list_devices lines 34-50 and device_ledger.list_devices lines 37-47:
\* canonicalise, decode the composite cursor, decide on the ledger phase and
\* decode the ledger's own cursor.
ListBegin ==
    /\ lst.pc = "begin"
    /\ LET provider == _maybe_canonicalize_group_name(lst.provider)
           loaded == _load_page(lst.page)
           decoded == _decode_page(loaded.ledger_page)
           call == [lst EXCEPT !.canon_provider = provider,
                               !.ledger_page = loaded.ledger_page,
                               !.fleet_page = loaded.fleet_page]
       IN lst' = IF ~loaded.ok THEN Raised(call, INVALID_CODE)
                 ELSE IF LedgerPhaseRuns(call, loaded.ledger_page, loaded.fleet_page)
                 THEN IF ~decoded.ok THEN Raised(call, INVALID_CODE)
                      ELSE [call EXCEPT !.pc = "scan",
                                        !.ledger_called = TRUE,
                                        !.unprovisioned_only = ~query_ledger_only(call),
                                        !.scan_page = decoded.pos]
                 ELSE [call EXCEPT !.pc = "fleet"]
    /\ UNCHANGED <<ledger, fleet, sess, labelVars, restVars>>

\* page_size = None (device_ledger.list_devices, line 34).
NoPageSize == -1

\* device_ledger._scan_table, line 318: whether the loop goes round again.
ScanContinues(result_size, page_size, next_page) ==
    (page_size = NoPageSize \/ result_size < page_size) /\ next_page # 0

\* The collector of device_ledger.list_devices: extends items and returns
\* the length of the whole list, which _scan_table adds to result_size.
collect_items(items, result) == items \o result.Items

\* The scan stopped on its limit exactly at the end of the table and the
\* table returned no LastEvaluatedKey (it may return either).
KeylessEnd(call, result) ==
    /\ result.LastEvaluatedKey = 0
    /\ Len(ledger) - call.scan_page = call.page_size

\* The count of scans of one call is kept up to this number.
MaxScans == 8

\* One round of the loop of device_ledger._scan_table (lines 307-321); when
\* the loop ends, device_ledger.list_devices returns and repo.list_devices
\* wraps the continuation (lines 51-52).
LedgerScan ==
    /\ lst.pc = "scan"
    /\ \E result \in TableScan(ledger, lst.scan_page, lst.page_size,
                               _build_scan_params(lst.canon_provider, lst.name_like,
                                                  lst.label, lst.unprovisioned_only)) :
         LET items == collect_items(lst.ledger_items, result)
             result_size == lst.result_size + Len(items)
             next_page == result.LastEvaluatedKey
             encoded == _encode_page(next_page)
         IN /\ lst' = IF ScanContinues(result_size, lst.page_size, next_page)
                      THEN [lst EXCEPT !.ledger_items = items,
                                       !.result_size = result_size,
                                       !.scans = Min(@ + 1, MaxScans),
                                       !.scan_page = next_page]
                      ELSE [lst EXCEPT !.ledger_items = items,
                                       !.result_size = result_size,
                                       !.scans = Min(@ + 1, MaxScans),
                                       !.ledger_next = encoded,
                                       !.next_page = IF Truthy(encoded)
                                                     THEN Some(_dump_page(TRUE, encoded.v))
                                                     ELSE encoded,
                                       !.pc = "fleet"]
            /\ sess' = [sess EXCEPT !.keyless_end = @ \/ KeylessEnd(lst, result)]
    /\ UNCHANGED <<ledger, fleet, labelVars, restVars>>

\* A partial-page test that forgets the ledger's continuation.
is_partial_page_IgnoringToken(call) ==
    Len(call.ledger_items) < call.page_size

\* repo.list_devices, lines 54-55: whether the fleet phase runs.
is_partial_page(call) ==
    ~Truthy(call.next_page)
    /\ (call.page_size = NoPageSize \/ Len(call.ledger_items) < call.page_size)

\* A fleet-phase test that forgets the label filter.
FleetPhaseRuns_IgnoringLabel(call) ==
    Truthy(call.fleet_page) \/ is_partial_page(call)

FleetPhaseRuns(call) ==
    ~query_ledger_only(call) /\ (Truthy(call.fleet_page) \/ is_partial_page(call))

\* A name check that accepts a name with an allowed first character.
device_name_regex_match(s) == Len(s) >= 1 /\ s[1] \in {"a", "b", "c", "d", "A", "B", "C"}

\* fleet_index.device_name_regex, [a-zA-Z0-9:_-]+, fully matching s.
NameChars == {"a", "b", "c", "d", "A", "B", "C", ":", "_", "-"}
                \cup {Digits[k] : k \in 1..Len(Digits)}
device_name_regex_fullmatch(s) == Len(s) >= 1 /\ \A i \in 1..Len(s) : s[i] \in NameChars

\* A fleet page size that forgets the ledger items already collected.
cont_page_size_Whole(call) == call.page_size

\* repo.list_devices, line 56.
cont_page_size(call) ==
    IF call.page_size # NoPageSize THEN call.page_size - Len(call.ledger_items)
    ELSE NoPageSize

\* repo.list_devices lines 55-66 with fleet_index.list_devices: the fleet
\* phase. A name_like outside the allow-list raises invalid_argument; a page
\* that is not one of the index's tokens, or a maxResults below 1, is
\* refused by the index (a client error, not an AppError); without a
\* maxResults the index returns up to its own page cap.
FleetQuery ==
    /\ lst.pc = "fleet"
    /\ FleetPhaseRuns(lst)
    /\ LET call == [lst EXCEPT !.fleet_called = TRUE,
                               !.fleet_page_size = cont_page_size(lst),
                               !.fleet_provider = lst.canon_provider]
           token == lst.fleet_page
           found == search_index(fleet, lst.canon_provider, lst.name_like, TRUE,
                                 IF Truthy(token) THEN DigitOf(token.v[2]) ELSE 0,
                                 IF cont_page_size(lst) = NoPageSize THEN SearchPageCap
                                 ELSE cont_page_size(lst))
       IN lst' = IF lst.name_like.some /\ ~device_name_regex_fullmatch(lst.name_like.v)
                 THEN Raised(call, INVALID_CODE)
                 ELSE IF (token.some /\ ~IsFleetToken(token.v)) \/ (cont_page_size(lst) # NoPageSize /\ cont_page_size(lst) < 1)
                 THEN Raised(call, FleetError)
                 ELSE [call EXCEPT !.fleet_items = found.things,
                                   !.next_page = IF Truthy(found.nextToken)
                                                 THEN Some(_dump_page(FALSE, found.nextToken.v))
                                                 ELSE found.nextToken,
                                   !.pc = "ret"]
    /\ UNCHANGED <<ledger, fleet, sess, labelVars, restVars>>

FleetSkip ==
    /\ lst.pc = "fleet"
    /\ ~FleetPhaseRuns(lst)
    /\ lst' = [lst EXCEPT !.pc = "ret"]
    /\ UNCHANGED <<ledger, fleet, sess, labelVars, restVars>>

\* model.device_entity_to_model, as far as the listing's claims go: the name
\* of the Device built from a ledger item or from a fleet thing.
device_entity_to_model(fleet_entity, ledger_entity) ==
    IF fleet_entity.some THEN fleet_entity.v.thingName ELSE ledger_entity.v.serialNumber

\* repo._search_result_to_model: the ledger items' models, then the fleet items'.
_search_result_to_model(ledger_items, fleet_items, next_page) ==
    [kind |-> "ok",
     items |-> [i \in 1..Len(ledger_items) |->
                    device_entity_to_model(None, Some(ledger_items[i]))]
               \o [i \in 1..Len(fleet_items) |->
                    device_entity_to_model(Some(fleet_items[i]), None)],
     nextPage |-> next_page]

\* repo.list_devices lines 68-73: the response; the client records its items.
ListReturn ==
    /\ lst.pc = "ret"
    /\ LET result == _search_result_to_model(lst.ledger_items, lst.fleet_items, lst.next_page)
       IN /\ lst' = [lst EXCEPT !.pc = "done", !.result = result]
          /\ sess' = [sess EXCEPT !.returned = @ \o result.items]
    /\ UNCHANGED <<ledger, fleet, labelVars, restVars>>

\* The response of a returned call carries an item of the fleet phase or an
\* f-tagged cursor.
FleetPhaseResponse(call) ==
    \/ call.fleet_items # <<>>
    \/ call.result.nextPage.some /\ call.result.nextPage.v[1] = "f"

\* The client asks for the next page with the nextPage it was given, and
\* remembers whether a response so far was of the fleet phase.
ClientNextPage ==
    /\ lst.pc = "done"
    /\ lst.result.kind = "ok"
    /\ lst.result.nextPage.some
    /\ lst' = NewCall(lst.provider, lst.name_like, lst.label, lst.result.nextPage, lst.page_size)
    /\ sess' = [sess EXCEPT !.calls = @ + 1,
                            !.fleet_seen = @ \/ FleetPhaseResponse(lst)]
    /\ UNCHANGED <<ledger, fleet, labelVars, restVars>>

\* The cursors a client may start with: none, a continuation of either
\* store, a bare tag, an unknown tag, and a tag with a malformed inner cursor.
InitCursors ==
    {None, Some(<<"l">>), Some(<<"f">>), Some(<<"x", "1">>),
     Some(<<"l", "z">>), Some(<<"f", "z">>)}
    \cup {Some(_dump_page(TRUE, _encode_page(k).v)) : k \in 1..NDev}
    \cup {Some(_dump_page(FALSE, FleetToken(k))) : k \in 1..NDev}

\* The other components' variables while one component is modelled.
IdleRest == [cur |-> [pc |-> "idle"], get |-> [pc |-> "idle"], exp |-> [pc |-> "idle"],
             reg |-> [pc |-> "idle"], grp |-> [pc |-> "idle"], tok |-> [pc |-> "idle"]]
RestIdle(S) ==
    /\ IF "cur" \in S THEN TRUE ELSE cur = IdleRest.cur
    /\ IF "get" \in S THEN TRUE ELSE get = IdleRest.get
    /\ IF "exp" \in S THEN TRUE ELSE exp = IdleRest.exp
    /\ IF "reg" \in S THEN TRUE ELSE reg = IdleRest.reg
    /\ IF "grp" \in S THEN TRUE ELSE grp = IdleRest.grp
    /\ IF "tok" \in S THEN TRUE ELSE tok = IdleRest.tok

\* The label saga's variables while the listing is modelled.
IdleLabel == [rec |-> [exists |-> FALSE, customLabel |-> NoLabel, jwtGroup |-> None],
              thing |-> [exists |-> FALSE, deactivated |-> FALSE],
              upd |-> <<>>]

ListInit ==
    /\ \E n \in (NDev - 1)..NDev :
         \E kinds \in [1..n -> DeviceKinds] :
           /\ ledger = [i \in 1..n |-> LedgerItem(i, kinds[i])]
           /\ fleet = FleetOf(kinds, 1)
    /\ \E provider \in {None, Some(UserProviderP)}, label \in {NoLabel, DEPLOYED},
          page \in InitCursors, page_size \in 1..MaxPageSize :
         /\ lst = NewCall(provider, None, label, page, page_size)
         /\ sess = [returned |-> <<>>, calls |-> 1, fromStart |-> ~page.some,
                 keyless_end |-> FALSE, fleet_seen |-> FALSE]
    /\ rec = IdleLabel.rec
    /\ thing = IdleLabel.thing
    /\ upd = IdleLabel.upd
    /\ RestIdle({})

ListNext ==
    \/ ListBegin
    \/ LedgerScan
    \/ FleetQuery
    \/ FleetSkip
    \/ ListReturn
    \/ ClientNextPage

ListSpec == ListInit /\ [][ListNext]_vars

\* Number of items of the longer ledger table the scan loop is run over.
NScan == 5

\* The listing over a longer table of provider a-b whose items either pass
\* the scan filter (unprovisioned) or do not (provisioned), from no cursor.
ScanKinds == {k \in DeviceKinds : k.jwtGroup = ProviderP /\ k.customLabel # DEACTIVATED
                                  /\ (k.fleet = "absent" <=> ~k.provStatus)}
ScanInit ==
    /\ \E kinds \in [1..NScan -> ScanKinds] :
         /\ ledger = [i \in 1..NScan |-> LedgerItem(i, kinds[i])]
         /\ fleet = FleetOf(kinds, 1)
    /\ \E page_size \in 1..MaxPageSize :
         /\ lst = NewCall(None, None, NoLabel, None, page_size)
         /\ sess = [returned |-> <<>>, calls |-> 1, fromStart |-> TRUE,
                    keyless_end |-> FALSE, fleet_seen |-> FALSE]
    /\ rec = IdleLabel.rec
    /\ thing = IdleLabel.thing
    /\ upd = IdleLabel.upd
    /\ RestIdle({})

ScanSpec == ScanInit /\ [][ListNext]_vars

\* Length of the table of the listing by name.
NNamed == 2

\* The name_like values of a caller: a prefix of the device names, and two
\* strings outside the allow-list.
NameLikes == {<<"d">>, <<"d", "!">>, <<"d", " ">>}

\* The listing by name: a short table, a name_like, with or without a label
\* filter, from no cursor or from a continuation of either store.
NameInit ==
    /\ \E kinds \in [1..NNamed -> DeviceKinds] :
         /\ ledger = [i \in 1..NNamed |-> LedgerItem(i, kinds[i])]
         /\ fleet = FleetOf(kinds, 1)
    /\ \E name_like \in NameLikes, label \in {NoLabel, DEPLOYED},
          page \in {None, Some(_dump_page(TRUE, _encode_page(1).v)),
                    Some(_dump_page(FALSE, FleetToken(1)))},
          page_size \in 1..MaxPageSize :
         /\ lst = NewCall(None, Some(name_like), label, page, page_size)
         /\ sess = [returned |-> <<>>, calls |-> 1, fromStart |-> ~page.some,
                    keyless_end |-> FALSE, fleet_seen |-> FALSE]
    /\ rec = IdleLabel.rec
    /\ thing = IdleLabel.thing
    /\ upd = IdleLabel.upd
    /\ RestIdle({})

NameSpec == NameInit /\ [][ListNext]_vars

\* Length of the table of the listing under every page size.
NTerm == 3

\* The listing under every page size, none and zero included, with filters
\* that may pass no item at all (a name no device has, a label, a table of
\* provisioned devices), from no cursor or from a ledger continuation. The
\* handler runs each of its steps as soon as the one before has returned;
\* whether the client asks for another page is the client's choice.
TermInit ==
    /\ \E kinds \in [1..NTerm -> ScanKinds] :
         /\ ledger = [i \in 1..NTerm |-> LedgerItem(i, kinds[i])]
         /\ fleet = FleetOf(kinds, 1)
    /\ \E name_like \in {None, Some(<<"c">>)}, label \in {NoLabel, DEPLOYED},
          page \in {None, Some(_dump_page(TRUE, _encode_page(1).v))},
          page_size \in {NoPageSize} \cup 0..MaxPageSize :
         /\ lst = NewCall(None, name_like, label, page, page_size)
         /\ sess = [returned |-> <<>>, calls |-> 1, fromStart |-> ~page.some,
                    keyless_end |-> FALSE, fleet_seen |-> FALSE]
    /\ rec = IdleLabel.rec
    /\ thing = IdleLabel.thing
    /\ upd = IdleLabel.upd
    /\ RestIdle({})

TermSpec ==
    /\ TermInit /\ [][ListNext]_vars
    /\ WF_vars(ListBegin) /\ WF_vars(LedgerScan) /\ WF_vars(FleetQuery)
    /\ WF_vars(FleetSkip) /\ WF_vars(ListReturn)

\* -------------------------------------------- repo.update_device_label

Callers == 1..NCallers
Labels == DeviceCustomLabel \cup {NoLabel}

\* device_ledger.find_device(provider, organization, device_name) on the
\* table item of that key: get_item(...).get("Item", {}) is the empty dict
\* when the key does not exist, and the function returns None only when
\* the stored provider or organization is not the requested one. An
\* attribute the item lacks reads as None (dict.get).
ItemGet(item, attr) == IF attr \in DOMAIN item THEN item[attr] ELSE None

\* A lookup that checks the provider scope only.
find_device_ProviderOnly(provider, organization, item) ==
    LET device_info == IF item.exists THEN item
                       ELSE [exists |-> FALSE, customLabel |-> NoLabel, jwtGroup |-> None]
        device_provider == ItemGet(device_info, "jwtGroup")
    IN IF ~Truthy(provider) \/ ~Truthy(device_provider) \/ device_provider = provider
       THEN [none |-> FALSE, item |-> device_info]
       ELSE [none |-> TRUE, item |-> device_info]

find_device(provider, organization, item) ==
    LET device_info == IF item.exists THEN item
                       ELSE [exists |-> FALSE, customLabel |-> NoLabel, jwtGroup |-> None]
        device_provider == ItemGet(device_info, "jwtGroup")
        device_organization == ItemGet(device_info, "org")
    IN IF /\ (~Truthy(provider) \/ ~Truthy(device_provider) \/ device_provider = provider)
          /\ (~Truthy(organization) \/ ~Truthy(device_organization)
                 \/ device_organization = organization)
       THEN [none |-> FALSE, item |-> device_info]
       ELSE [none |-> TRUE, item |-> device_info]

\* device_ledger.update_device_label(device_name, expected_label, label),
\* lines 137-140: the condition of the write; none when expected_label is None.
WriteCondition(item, expected_label) ==
    expected_label # NoLabel => (item.exists /\ item.customLabel = expected_label)

\* device_ledger.update_device_label on the table item: update_item sets
\* customLabel (creating the item when the key does not exist) if the
\* condition holds, fails the conditional check otherwise, or fails because
\* the table cannot be reached. Each outcome: [outcome, item].
ledger_update_device_label(item, expected_label, label) ==
    { [outcome |-> StoreError, item |-> item] }
    \cup IF WriteCondition(item, expected_label)
         THEN { [outcome |-> "ok",
                 item |-> [item EXCEPT !.exists = TRUE, !.customLabel = label]] }
         ELSE { [outcome |-> ConditionFailed, item |-> item] }

\* fleet_index.update_device_active_state(device_name, active): active =
\* false adds the thing to the deactivated group, active = true removes it;
\* a thing the index does not know fails with DeviceNotFoundError; the index
\* may also fail otherwise. Each outcome: [outcome, thing].
update_device_active_state(t, active) ==
    { [outcome |-> FleetError, thing |-> t] }
    \cup IF t.exists
         THEN { [outcome |-> "ok", thing |-> [t EXCEPT !.deactivated = ~active]] }
         ELSE { [outcome |-> DeviceNotFoundError, thing |-> t] }

NewUpdate ==
    [pc |-> "idle", label |-> NoLabel, found |-> FALSE, old_label |-> NoLabel,
     write |-> "none", at_write |-> "UNSET", after_write |-> "UNSET", created |-> FALSE,
     toggle |-> [called |-> FALSE, active |-> FALSE, outcome |-> "none"],
     comp |-> "none", interfered |-> FALSE,
     result |-> "none", returned_label |-> "UNSET"]

\* A successful ledger write of caller c lands inside the other running calls.
Interfere(u, c) ==
    [d \in Callers |->
        IF d # c /\ u[d].pc \in {"write", "toggle", "compensate"}
        THEN [u[d] EXCEPT !.interfered = TRUE] ELSE u[d]]

\* repo.update_device_label, line 133: the not-found check on the item.
ItemIsNone(found) == found.none

\* repo.update_device_label lines 132-137: read the item, take its label.
UpdFind(c) ==
    /\ upd[c].pc = "idle"
    /\ \E label \in Labels :
         LET item == find_device(None, None, rec)
             call == [upd[c] EXCEPT !.label = label, !.found = rec.exists]
         IN upd' = [upd EXCEPT ![c] =
                IF ItemIsNone(item)
                THEN [call EXCEPT !.pc = "done", !.result = NOT_FOUND_CODE,
                                  !.returned_label = rec.customLabel]
                ELSE [call EXCEPT !.pc = "write", !.old_label = item.item.customLabel]]
    /\ UNCHANGED <<rec, thing, listVars, restVars>>

\* The line-140 test with "or" for "and".
LedgerOnly_Either(label, old_label) == label # DEACTIVATED \/ old_label # DEACTIVATED

\* repo.update_device_label, line 140: the transitions that end after the
\* ledger write.
LedgerOnly(label, old_label) == label # DEACTIVATED /\ old_label # DEACTIVATED

\* repo.update_device_label lines 139-141: the conditional ledger write.
UpdWrite(c) ==
    /\ upd[c].pc = "write"
    /\ \E w \in ledger_update_device_label(rec, upd[c].old_label, upd[c].label) :
         LET call == [upd[c] EXCEPT !.write = w.outcome,
                                    !.at_write = rec.customLabel,
                                    !.after_write = w.item.customLabel,
                                    !.created = ~rec.exists /\ w.item.exists]
             next == IF w.outcome # "ok"
                     THEN [call EXCEPT !.pc = "done", !.result = w.outcome,
                                       !.returned_label = w.item.customLabel]
                     ELSE IF LedgerOnly(call.label, call.old_label)
                     THEN [call EXCEPT !.pc = "done", !.result = "ok",
                                       !.returned_label = w.item.customLabel]
                     ELSE [call EXCEPT !.pc = "toggle"]
         IN /\ rec' = w.item
            /\ upd' = IF w.outcome = "ok"
                      THEN [Interfere(upd, c) EXCEPT ![c] = next]
                      ELSE [upd EXCEPT ![c] = next]
    /\ UNCHANGED <<thing, listVars, restVars>>

\* repo.update_device_label, line 144: the active state asked of the index.
ToggleActive(label) == label # DEACTIVATED

\* repo.update_device_label lines 143-145: the fleet-index toggle.
UpdToggle(c) ==
    /\ upd[c].pc = "toggle"
    /\ \E t \in update_device_active_state(thing, ToggleActive(upd[c].label)) :
         LET call == [upd[c] EXCEPT !.toggle = [called |-> TRUE,
                                                active |-> ToggleActive(upd[c].label),
                                                outcome |-> t.outcome]]
         IN /\ thing' = t.thing
            /\ upd' = [upd EXCEPT ![c] =
                   IF t.outcome = "ok"
                   THEN [call EXCEPT !.pc = "done", !.result = "ok",
                                     !.returned_label = rec.customLabel]
                   ELSE [call EXCEPT !.pc = "compensate"]]
    /\ UNCHANGED <<rec, listVars, restVars>>

\* A compensating write that writes the new label back.
CompensatingWrite_KeepingNew(call) == [expected_label |-> call.label, label |-> call.label]

\* repo.update_device_label, line 148: the compensating write's arguments.
CompensatingWrite(call) == [expected_label |-> call.label, label |-> call.old_label]

\* repo.update_device_label, lines 149-156: what propagates when the
\* compensating write fails: the bare raise re-raises the exception being
\* handled, the compensating write's.
RaisedOnFailedCompensation(fleet_error, write_error) == write_error

\* Raising the fleet error as it came, whatever its kind.
RaisedAfterCompensation_AsIs(fleet_error) == fleet_error

\* repo.update_device_label, lines 158-162: what propagates after a
\* compensating write that succeeded.
RaisedAfterCompensation(fleet_error) ==
    IF fleet_error = DeviceNotFoundError THEN INVALID_CODE ELSE fleet_error

\* repo.update_device_label lines 145-162: the compensating ledger write.
UpdCompensate(c) ==
    /\ upd[c].pc = "compensate"
    /\ LET args == CompensatingWrite(upd[c])
       IN \E w \in ledger_update_device_label(rec, args.expected_label, args.label) :
            LET call == [upd[c] EXCEPT
                            !.pc = "done",
                            !.comp = IF w.outcome = "ok" THEN "ok" ELSE "failed",
                            !.returned_label = w.item.customLabel,
                            !.result = IF w.outcome = "ok"
                                       THEN RaisedAfterCompensation(upd[c].toggle.outcome)
                                       ELSE RaisedOnFailedCompensation(upd[c].toggle.outcome,
                                                                       w.outcome)]
            IN /\ rec' = w.item
               /\ upd' = IF w.outcome = "ok"
                         THEN [Interfere(upd, c) EXCEPT ![c] = call]
                         ELSE [upd EXCEPT ![c] = call]
    /\ UNCHANGED <<thing, listVars, restVars>>

\* The listing's variables while the label saga is modelled.
IdleList == [ledger |-> <<>>, fleet |-> <<>>,
             lst |-> NewCall(None, None, NoLabel, None, 1),
             sess |-> [returned |-> <<>>, calls |-> 0, fromStart |-> TRUE,
                       keyless_end |-> FALSE, fleet_seen |-> FALSE]]

LabelInit ==
    /\ \E exists \in BOOLEAN, label \in Labels :
         rec = [exists |-> exists,
                customLabel |-> IF exists THEN label ELSE NoLabel,
                jwtGroup |-> IF exists THEN Some(ProviderP) ELSE None]
    /\ \E exists \in BOOLEAN :
         thing = [exists |-> exists,
                  deactivated |-> exists /\ rec.customLabel = DEACTIVATED]
    /\ upd = [c \in Callers |-> NewUpdate]
    /\ ledger = IdleList.ledger
    /\ fleet = IdleList.fleet
    /\ lst = IdleList.lst
    /\ sess = IdleList.sess
    /\ RestIdle({})

LabelNext ==
    \E c \in Callers :
        \/ UpdFind(c)
        \/ UpdWrite(c)
        \/ UpdToggle(c)
        \/ UpdCompensate(c)

LabelSpec == LabelInit /\ [][LabelNext]_vars

\* ------------------------------------------------- claims on list_devices

Responded == lst.pc = "done" /\ lst.result.kind = "ok"

Count(seq, x) == Cardinality({i \in 1..Len(seq) : seq[i] = x})

\* The fleet index only holds devices whose ledger record has a
\* provisioning status.
FleetHoldsOnlyProvisioned ==
    \A j \in 1..Len(fleet) :
        \E i \in 1..Len(ledger) :
            ledger[i].serialNumber = fleet[j].thingName /\ ledger[i].provStatus

\* What a listing without a label filter has to return: the unprovisioned
\* ledger devices and the active fleet-index devices matching the filters.
ExpectedLedgerNames ==
    {ledger[i].serialNumber : i \in {k \in 1..Len(ledger) :
        ScanFilterMatches(ledger[k],
            _build_scan_params(_maybe_canonicalize_group_name(lst.provider),
                               lst.name_like, NoLabel, TRUE))}}

ExpectedFleetNames ==
    {fleet[j].thingName : j \in {k \in 1..Len(fleet) :
        FleetQueryMatches(fleet[k], _maybe_canonicalize_group_name(lst.provider),
                          lst.name_like, TRUE)}}

\* C1: a page of repo.list_devices asked with page size n >= 1 holds at most
\* n items.
C1_PageWithinPageSize ==
    Responded => Len(lst.result.items) <= lst.page_size

\* C2: paging from no cursor until a response has no nextPage returns every
\* matching unprovisioned ledger device and every matching active fleet
\* device exactly once (stated for the runs in which the table returns a
\* LastEvaluatedKey whenever a scan stops on its limit).
C2_TraversalComplete ==
    (Responded /\ ~lst.result.nextPage.some /\ sess.fromStart
        /\ lst.label = NoLabel /\ FleetHoldsOnlyProvisioned /\ ~sess.keyless_end)
    => /\ \A name \in ExpectedLedgerNames \cup ExpectedFleetNames :
            Count(sess.returned, name) = 1
       /\ \A i \in 1..Len(sess.returned) :
            sess.returned[i] \in ExpectedLedgerNames \cup ExpectedFleetNames

\* C3: without a label filter no device name appears twice in one page,
\* given that the fleet index only holds provisioned devices.
C3_PageDuplicateFree ==
    (Responded /\ lst.label = NoLabel /\ FleetHoldsOnlyProvisioned)
    => \A i, j \in 1..Len(lst.result.items) :
            lst.result.items[i] = lst.result.items[j] => i = j

\* A page without label filter that holds items of both phases.
C3_Witness ==
    /\ Responded /\ lst.label = NoLabel /\ FleetHoldsOnlyProvisioned
    /\ Len(lst.ledger_items) >= 1 /\ Len(lst.fleet_items) >= 1

\* C10: with a label filter the call queries the ledger, with
\* unprovisioned_only = false, and never the fleet index.
C10_LabelFilterLedgerOnly ==
    lst.label # NoLabel
    => /\ ~lst.fleet_called
       /\ lst.ledger_called => ~lst.unprovisioned_only
       /\ Responded => lst.ledger_called

\* A label-filtered call resumed from a fleet cursor whose ledger result is
\* short and has no continuation.
C10_Witness ==
    /\ Responded /\ lst.label # NoLabel
    /\ Truthy(lst.fleet_page)
    /\ Len(lst.ledger_items) < lst.page_size
    /\ ~lst.result.nextPage.some

\* ------------------------------------------ claims on update_device_label

Returned(c) == upd[c].pc = "done"
ToggleFailed(c) == upd[c].toggle.outcome \in {FleetError, DeviceNotFoundError}

\* C4: a call that read label X and whose conditional write meets a stored
\* label Y # X (written by another caller in between) fails with the
\* condition-failed error and leaves Y stored.
C4_StaleWriteFails ==
    \A c \in Callers :
        (upd[c].found /\ upd[c].at_write # "UNSET"
            /\ upd[c].at_write # upd[c].old_label /\ upd[c].write # StoreError)
        => /\ upd[c].write = ConditionFailed
           /\ upd[c].result = ConditionFailed
           /\ upd[c].after_write = upd[c].at_write

\* C5: when the toggle fails after a successful ledger write and the
\* compensating write succeeds, the call returns with the ledger label at
\* the value it read, and raises the error of the fleet-index failure.
C5_CompensationRestores ==
    \A c \in Callers :
        (Returned(c) /\ upd[c].write = "ok" /\ ToggleFailed(c) /\ upd[c].comp = "ok")
        => /\ upd[c].returned_label = upd[c].old_label
           /\ upd[c].toggle.outcome = DeviceNotFoundError => upd[c].result = INVALID_CODE
           /\ upd[c].toggle.outcome = FleetError => upd[c].result = FleetError

\* A compensated call that had changed the label.
C5_Witness ==
    \E c \in Callers :
        /\ Returned(c) /\ upd[c].write = "ok" /\ ToggleFailed(c) /\ upd[c].comp = "ok"
        /\ upd[c].found /\ upd[c].old_label # upd[c].label
        /\ upd[c].toggle.outcome = FleetError

\* No store was out of reach during the call of c.
NoOutage(c) ==
    /\ upd[c].write # StoreError
    /\ upd[c].toggle.outcome # FleetError
    /\ upd[c].result # StoreError

\* C6: deactivating a device that has a ledger record and no fleet-index
\* record leaves the ledger label as it was and fails with
\* InvalidArgument (no other writer, no store out of reach).
C6_DeactivateNeverConnected ==
    \A c \in Callers :
        (Returned(c) /\ upd[c].label = DEACTIVATED /\ upd[c].found /\ ~thing.exists
            /\ ~upd[c].interfered /\ NoOutage(c))
        => /\ upd[c].result = INVALID_CODE
           /\ upd[c].returned_label = upd[c].old_label

\* A deactivation of a DEPLOYED device unknown to the fleet index, undone.
C6_Witness ==
    \E c \in Callers :
        /\ Returned(c) /\ upd[c].label = DEACTIVATED /\ upd[c].found /\ ~thing.exists
        /\ ~upd[c].interfered /\ NoOutage(c)
        /\ upd[c].old_label = DEPLOYED /\ upd[c].comp = "ok"

\* C7: a call on a name without ledger record fails with NotFound, writes
\* nothing to the ledger and does not call the fleet index.
C7_MissingRecordNotFound ==
    \A c \in Callers :
        (Returned(c) /\ ~upd[c].found)
        => /\ upd[c].result = NOT_FOUND_CODE
           /\ upd[c].write = "none" /\ ~upd[c].created
           /\ ~upd[c].toggle.called

\* C8: when the toggle and the compensating write both fail, the call
\* raises, and what it raises is the fleet-index failure.
C8_OriginalFailurePropagates ==
    \A c \in Callers :
        (Returned(c) /\ upd[c].found /\ ToggleFailed(c) /\ upd[c].comp = "failed")
        => /\ upd[c].result # "ok"
           /\ upd[c].result \in {upd[c].toggle.outcome,
                                RaisedAfterCompensation(upd[c].toggle.outcome)}

\* C9: the toggle is called exactly when the ledger write succeeded and
\* the old or the new label is deactivated, with active = (new label is not
\* deactivated); any other transition returns after the ledger write.
C9_ToggleIffDeactivation ==
    \A c \in Callers :
        LET touches == upd[c].old_label = DEACTIVATED \/ upd[c].label = DEACTIVATED
        IN /\ upd[c].toggle.called => upd[c].toggle.active = (upd[c].label # DEACTIVATED)
           /\ upd[c].toggle.called => (upd[c].write = "ok" /\ touches)
           /\ Returned(c) => (upd[c].toggle.called <=> (upd[c].write = "ok" /\ touches))
           /\ (Returned(c) /\ upd[c].write = "ok" /\ ~touches)
                => (upd[c].result = "ok" /\ upd[c].comp = "none")

\* A reactivation: the toggle called with active = true.
C9_Witness ==
    \E c \in Callers :
        /\ Returned(c) /\ upd[c].toggle.called /\ upd[c].toggle.active
        /\ upd[c].old_label = DEACTIVATED /\ upd[c].label = DEPLOYED
        /\ upd[c].result = "ok"

\* C25: on a device the fleet index knows, once every call has returned,
\* the ledger label is deactivated exactly when the thing is in the
\* deactivated group. Stated here for calls that all succeeded, with no
\* store out of reach, each conditioned on a label it had read.
C25_RepresentationsAgree ==
    (/\ thing.exists
     /\ \A c \in Callers :
          /\ Returned(c) /\ upd[c].found /\ upd[c].old_label # NoLabel
          /\ upd[c].result = "ok" /\ upd[c].comp = "none" /\ NoOutage(c))
    => (rec.customLabel = DEACTIVATED <=> thing.deactivated)

\* C26: a compensating write that meets a stored label other than the one
\* its call wrote in step 3 fails and leaves the stored label as it is,
\* whatever the new label was, the cleared label included.
C26_CompensationNeverOverwrites ==
    [][\A c \in Callers :
          (upd[c].pc = "compensate" /\ upd'[c].pc = "done"
              /\ rec.customLabel # upd[c].label)
          => (upd'[c].comp = "failed" /\ rec' = rec)]_vars

\* ------------------------------------------------- composite cursor codec

\* Largest length of a store's own continuation token.
MaxCursorLen == 3

\* The characters of the stores' continuation tokens.
CursorChars == {"l", "f", "e", "t", "1", "z"}

RECURSIVE Strings(_, _)
\* The strings over chars of length n.
Strings(chars, n) ==
    IF n = 0 THEN {<<>>}
    ELSE {<<c>> \o s : c \in chars, s \in Strings(chars, n - 1)}

\* The non-empty inner cursors: repo.list_devices dumps a continuation only
\* when it is truthy (lines 51 and 65).
InnerCursors == UNION {Strings(CursorChars, n) : n \in 1..MaxCursorLen}

\* repo._dump_page applied to (page_type, inner).
CursorDump ==
    /\ cur.pc = "start"
    /\ cur' = [cur EXCEPT !.pc = "dumped", !.dumped = _dump_page(cur.isLedger, cur.inner)]
    /\ UNCHANGED exceptCur

\* repo._load_page applied to the dumped cursor.
CursorLoad ==
    /\ cur.pc = "dumped"
    /\ cur' = [cur EXCEPT !.pc = "loaded", !.loaded = _load_page(Some(cur.dumped))]
    /\ UNCHANGED exceptCur

CursorInit ==
    /\ \E isLedger \in BOOLEAN, inner \in InnerCursors :
         cur = [pc |-> "start", isLedger |-> isLedger, inner |-> inner,
                dumped |-> <<>>,
                loaded |-> [ok |-> FALSE, ledger_page |-> None, fleet_page |-> None]]
    /\ RestIdle({"cur"})
    /\ ledger = IdleList.ledger
    /\ fleet = IdleList.fleet
    /\ lst = IdleList.lst
    /\ sess = IdleList.sess
    /\ rec = IdleLabel.rec
    /\ thing = IdleLabel.thing
    /\ upd = IdleLabel.upd

CursorNext ==
    \/ CursorDump
    \/ CursorLoad

CursorSpec == CursorInit /\ [][CursorNext]_vars

\* C13: loading a dumped composite cursor gives the inner cursor back in the
\* position of its source and null in the other position.
C13_CursorRoundTrip ==
    cur.pc = "loaded"
    => /\ cur.loaded.ok
       /\ cur.loaded.ledger_page = (IF cur.isLedger THEN Some(cur.inner) ELSE None)
       /\ cur.loaded.fleet_page = (IF cur.isLedger THEN None ELSE Some(cur.inner))

\* A fleet cursor whose inner token itself begins with the ledger tag.
C13_Witness ==
    /\ cur.pc = "loaded" /\ ~cur.isLedger /\ cur.inner[1] = "l"
    /\ cur.loaded.fleet_page = Some(cur.inner)

\* ------------------------------------------------------ repo.get_device

\* The device names a caller asks for: two that match the allow-list, the
\* empty name, one with a space and one with a character outside the list.
GetNames == {<<"d", "1">>, <<"d", ":", "1">>, <<>>, <<"d", " ", "1">>, <<"d", "1", "!">>}

\* The ledger's view of the device: no item under the key, or an item with
\* its provider, whether it is provisioned (provStatus present), whether its
\* policy document has an iot:Publish statement, and whether it carries the
\* json_schema attribute; its organization, if it names one.
OrgO == <<"b">>
OrgX == <<"d">>
UserOrgO == <<"B">>
NoItem == [exists |-> FALSE, customLabel |-> NoLabel, jwtGroup |-> None, org |-> None,
           provStatus |-> FALSE, publish |-> FALSE, json_schema |-> FALSE]
GetItems ==
    {NoItem} \cup
    { [exists |-> TRUE, customLabel |-> NoLabel, jwtGroup |-> Some(g), org |-> o,
       provStatus |-> ps, publish |-> pub, json_schema |-> js] :
        g \in {ProviderP, ProviderQ}, o \in {None, Some(OrgO), Some(OrgX)},
        ps \in BOOLEAN, pub \in BOOLEAN, js \in BOOLEAN }

\* The stream preview of a response: absent, the first lines of the stream
\* with their timestamp, or the placeholder of a suppressed failure.
NoPreview == [kind |-> "none", text |-> "", ts |-> FALSE]
PreviewErrorText == "<error fetching preview>"
PreviewError == "PreviewError"

\* A fresh call of repo.get_device(provider, organization, device_name,
\* brief_repr).
NewGet(provider, organization, device_name, brief_repr, item, thingExists) ==
    [pc |-> "begin", provider |-> provider, organization |-> organization,
     device_name |-> device_name,
     brief_repr |-> brief_repr, item |-> item, thingExists |-> thingExists,
     canon_provider |-> None, canon_organization |-> None, ledger_called |-> FALSE, schema_called |-> FALSE,
     fleet_called |-> FALSE, fleet_device |-> FALSE, preview_called |-> FALSE,
     fetch |-> "none", preview |-> NoPreview,
     result |-> [kind |-> "none", brief |-> FALSE, preview |-> NoPreview]]

GetRaised(call, error) ==
    [call EXCEPT !.pc = "done",
                 !.result = [kind |-> error, brief |-> FALSE, preview |-> NoPreview]]

\* repo.get_device, lines 90-93: canonicalise, then check the name.
GetBegin ==
    /\ get.pc = "begin"
    /\ LET call == [get EXCEPT
                       !.canon_provider = _maybe_canonicalize_group_name(get.provider),
                       !.canon_organization = _maybe_canonicalize_group_name(get.organization)]
       IN get' = IF ~device_name_regex_fullmatch(get.device_name)
                 THEN GetRaised(call, INVALID_CODE)
                 ELSE [call EXCEPT !.pc = "ledger"]
    /\ UNCHANGED exceptGet

\* repo.get_device, lines 95-100: the ledger lookup; a falsy result (None
\* or the empty dict) is not found; the brief representation returns here.
GetLedger ==
    /\ get.pc = "ledger"
    /\ LET found == find_device(get.canon_provider, get.canon_organization, get.item)
           call == [get EXCEPT !.ledger_called = TRUE]
       IN get' = IF found.none \/ ~found.item.exists
                 THEN GetRaised(call, NOT_FOUND_CODE)
                 ELSE IF get.brief_repr
                 THEN [call EXCEPT !.pc = "done",
                                   !.result = [kind |-> "ok", brief |-> TRUE,
                                               preview |-> NoPreview]]
                 ELSE [call EXCEPT !.pc = "schema"]
    /\ UNCHANGED exceptGet

\* repo.get_device, lines 102-110: the schema registry is asked when the
\* item carries json_schema.
GetSchema ==
    /\ get.pc = "schema"
    /\ get' = [get EXCEPT !.pc = "fleet", !.schema_called = get.item.json_schema]
    /\ UNCHANGED exceptGet

\* repo.get_device, line 112, with fleet_index.find_device: the name is
\* checked again, then the index is searched for the thing of that name.
GetFleet ==
    /\ get.pc = "fleet"
    /\ get' = IF ~device_name_regex_fullmatch(get.device_name)
              THEN GetRaised(get, INVALID_CODE)
              ELSE [get EXCEPT !.pc = "preview", !.fleet_called = TRUE,
                               !.fleet_device = get.thingExists]
    /\ UNCHANGED exceptGet

\* repo._get_streaming_topic: no topic for an unprovisioned item, an
\* internal error for a provisioned item without an iot:Publish statement.
_get_streaming_topic(ledger_item) ==
    IF ~ledger_item.provStatus THEN "none"
    ELSE IF ~ledger_item.publish THEN INTERNAL_ERROR_CODE
    ELSE "topic"

\* stream_data.get_stream_preview(topic): the preview and its timestamp
\* (which the package may lack), nothing when the package or the resource
\* is unknown, an internal AppError when the file cannot be read or the
\* package service reports failure, or another exception (an HTTP error of
\* the package service, a topic of another shape).
get_stream_preview ==
    { [kind |-> "text", text |-> "lines", ts |-> ts] : ts \in BOOLEAN }
    \cup { NoPreview,
           [kind |-> INTERNAL_ERROR_CODE, text |-> "", ts |-> FALSE],
           [kind |-> PreviewError, text |-> "", ts |-> FALSE] }

\* repo.get_device, lines 114-121: an AppError with the internal status is
\* suppressed and replaced by the placeholder; anything else propagates.
SuppressedPreview == [kind |-> "text", text |-> PreviewErrorText, ts |-> FALSE]

GetPreview ==
    /\ get.pc = "preview"
    /\ LET topic == _get_streaming_topic(get.item)
       IN IF topic = INTERNAL_ERROR_CODE
          THEN get' = [get EXCEPT !.pc = "ret", !.preview = SuppressedPreview]
          ELSE IF topic = "none"
          THEN get' = [get EXCEPT !.pc = "ret", !.preview = NoPreview]
          ELSE \E p \in get_stream_preview :
                 LET call == [get EXCEPT !.preview_called = TRUE, !.fetch = p.kind]
                 IN get' = IF p.kind = INTERNAL_ERROR_CODE
                           THEN [call EXCEPT !.pc = "ret", !.preview = SuppressedPreview]
                           ELSE IF p.kind = PreviewError
                           THEN GetRaised(call, PreviewError)
                           ELSE [call EXCEPT !.pc = "ret", !.preview = p]
    /\ UNCHANGED exceptGet

\* repo.get_device, lines 123-128: the full Device.
GetReturn ==
    /\ get.pc = "ret"
    /\ get' = [get EXCEPT !.pc = "done",
                          !.result = [kind |-> "ok", brief |-> FALSE, preview |-> get.preview]]
    /\ UNCHANGED exceptGet

GetInit ==
    /\ \E provider \in {None, Some(UserProviderP), Some(ProviderQ)},
          organization \in {None, Some(UserOrgO)},
          device_name \in GetNames, brief_repr \in BOOLEAN,
          item \in GetItems, thingExists \in BOOLEAN :
         get = NewGet(provider, organization, device_name, brief_repr, item, thingExists)
    /\ ledger = IdleList.ledger
    /\ fleet = IdleList.fleet
    /\ lst = IdleList.lst
    /\ sess = IdleList.sess
    /\ rec = IdleLabel.rec
    /\ thing = IdleLabel.thing
    /\ upd = IdleLabel.upd
    /\ RestIdle({"get"})

GetNext ==
    \/ GetBegin
    \/ GetLedger
    \/ GetSchema
    \/ GetFleet
    \/ GetPreview
    \/ GetReturn

GetSpec == GetInit /\ [][GetNext]_vars

\* -------------------------------------------------- repo.export_devices

\* A thing of the fleet index that the ledger has no record of.
FleetOnlyThing == [thingName |-> <<"d", "9">>, SensorProvider |-> ProviderP,
                   deactivated |-> FALSE]

NewExport(provider) ==
    [pc |-> "begin", provider |-> provider, canon_provider |-> None,
     fleet_items |-> <<>>, fleet_more |-> FALSE,
     ledger_items |-> <<>>, scan_page |-> 0, result_size |-> 0, scans |-> 0,
     result |-> <<>>]

\* repo.export_devices, lines 77-78.
ExpBegin ==
    /\ exp.pc = "begin"
    /\ exp' = [exp EXCEPT !.pc = "fleet",
                          !.canon_provider = _maybe_canonicalize_group_name(exp.provider)]
    /\ UNCHANGED <<ledger, fleet, exceptExp>>

\* repo.export_devices, line 79, with fleet_index.list_devices: one search
\* request without nextToken and without maxResults; the nextToken of the
\* answer is dropped.
ExpFleet ==
    /\ exp.pc = "fleet"
    /\ LET found == search_index(fleet, exp.canon_provider, None, FALSE, 0, SearchPageCap)
       IN exp' = [exp EXCEPT !.pc = "scan",
                             !.fleet_items = found.things,
                             !.fleet_more = found.nextToken.some]
    /\ UNCHANGED <<ledger, fleet, exceptExp>>

\* repo.export_devices, line 80, with device_ledger.list_devices and one
\* round of the loop of _scan_table: no page, no page size, no name, no
\* label, any provisioning status.
ExpScan ==
    /\ exp.pc = "scan"
    /\ \E result \in TableScan(ledger, exp.scan_page, NoPageSize,
                               _build_scan_params(exp.canon_provider, None, NoLabel, FALSE)) :
         LET items == collect_items(exp.ledger_items, result)
             result_size == exp.result_size + Len(items)
             next_page == result.LastEvaluatedKey
         IN exp' = [exp EXCEPT !.ledger_items = items,
                               !.result_size = result_size,
                               !.scans = @ + 1,
                               !.scan_page = next_page,
                               !.pc = IF ScanContinues(result_size, NoPageSize, next_page)
                                      THEN "scan" ELSE "merge"]
    /\ UNCHANGED <<ledger, fleet, exceptExp>>

\* repo._merge_entities_to_models: one Device per ledger item, with the
\* fleet item of the same name when the lookup has one.
_merge_entities_to_models(fleet_items, ledger_items) ==
    LET lookup(name) == {i \in 1..Len(fleet_items) : fleet_items[i].thingName = name}
    IN [i \in 1..Len(ledger_items) |->
          LET fleet_entity == lookup(ledger_items[i].serialNumber)
          IN [name |-> ledger_items[i].serialNumber,
              fleet_entity |-> fleet_entity # {},
              ledger_entity_unprovisioned |-> fleet_entity = {}]]

\* repo.export_devices, line 81.
ExpMerge ==
    /\ exp.pc = "merge"
    /\ exp' = [exp EXCEPT !.pc = "done",
                          !.result = _merge_entities_to_models(exp.fleet_items,
                                                               exp.ledger_items)]
    /\ UNCHANGED <<ledger, fleet, exceptExp>>

ExportInit ==
    /\ \E n \in (NDev - 1)..NDev :
         \E kinds \in [1..n -> DeviceKinds], fleetOnly \in BOOLEAN :
           /\ ledger = [i \in 1..n |-> LedgerItem(i, kinds[i])]
           /\ fleet = FleetOf(kinds, 1) \o (IF fleetOnly THEN <<FleetOnlyThing>> ELSE <<>>)
    /\ \E provider \in {None, Some(UserProviderP)} : exp = NewExport(provider)
    /\ lst = IdleList.lst
    /\ sess = IdleList.sess
    /\ rec = IdleLabel.rec
    /\ thing = IdleLabel.thing
    /\ upd = IdleLabel.upd
    /\ RestIdle({"exp"})

ExportNext ==
    \/ ExpBegin
    \/ ExpFleet
    \/ ExpScan
    \/ ExpMerge

ExportSpec == ExportInit /\ [][ExportNext]_vars

\* The ledger records and the fleet records that match the export's provider.
ExportLedgerMatches ==
    {i \in 1..Len(ledger) :
        exp.provider.some => ledger[i].jwtGroup = ProviderP}
FleetRecordOf(name) ==
    {j \in 1..Len(fleet) : fleet[j].thingName = name
                           /\ (exp.provider.some => fleet[j].SensorProvider = ProviderP)}

\* C18: export_devices returns exactly one Device per ledger record that
\* matches the provider, built with the fleet record of the same name
\* whenever the fleet index holds one (unprovisioned = no fleet record);
\* fleet records without a ledger record produce no Device.
C18_ExportMergesAll ==
    exp.pc = "done"
    => /\ \A i \in ExportLedgerMatches :
            Cardinality({k \in 1..Len(exp.result) :
                            exp.result[k].name = ledger[i].serialNumber}) = 1
       /\ \A k \in 1..Len(exp.result) :
            /\ \E i \in ExportLedgerMatches : ledger[i].serialNumber = exp.result[k].name
            /\ exp.result[k].fleet_entity = (FleetRecordOf(exp.result[k].name) # {})
            /\ exp.result[k].ledger_entity_unprovisioned = ~exp.result[k].fleet_entity

\* -------------------------------- schema_registry.get_schema_by_hash

\* Largest number of records in the schema registry.
MaxSchemas == 2
\* Number of values of the schema hash.
HashBuckets == 2

\* The schema texts a device reports.
SchemaTexts == {<<"a">>, <<"b">>, <<"a", "b">>}

CharCode(c) == CASE c = "a" -> 1 [] c = "b" -> 2 [] c = "c" -> 3 [] c = "-" -> 4 [] OTHER -> 0

RECURSIVE CodeSum(_)
CodeSum(s) == IF s = <<>> THEN 0 ELSE CharCode(Head(s)) + CodeSum(Tail(s))

\* md5(...).hexdigest() of a string: a digest of all its characters with
\* few values, so that different strings collide.
md5(s) == CodeSum(s) % HashBuckets

\* The records the registry may hold: a hash, an owner (or none), a title.
SchemaRecords ==
    { [schemaHash |-> h, jwtGroup |-> g, title |-> t] :
        h \in 0..(HashBuckets - 1), g \in {Some(ProviderP), Some(ProviderQ), None},
        t \in {"t"} }

\* The registry's tables: every sequence of up to MaxSchemas records, each
\* given its position as id.
SchemaTables ==
    UNION { { [i \in 1..n |-> [id |-> i, schemaHash |-> f[i].schemaHash,
                                jwtGroup |-> f[i].jwtGroup, title |-> f[i].title]] :
                f \in [1..n -> SchemaRecords] } : n \in 0..MaxSchemas }

\* schemas_table.query(IndexName = schemaHash-index, schemaHash = h): the
\* records under that hash, in index order.
QueryByHash(table, h) == SelectSeq(table, LAMBDA item : item.schemaHash = h)

\* An owner test that accepts any record.
SchemaOwnedBy_Any(item, provider) == TRUE

\* schema_registry.get_schema_by_hash, line 73: the owner test on the record.
SchemaOwnedBy(item, provider) == item.jwtGroup = Some(provider)

NewLookup(table, provider, json_schema) ==
    [pc |-> "hash", table |-> table, provider |-> provider, json_schema |-> json_schema,
     schema_hash |-> 0, items |-> <<>>, result |-> None]

\* schema_registry.get_schema_by_hash, line 66.
RegHash ==
    /\ reg.pc = "hash"
    /\ reg' = [reg EXCEPT !.pc = "query",
                          !.schema_hash = md5(reg.json_schema \o reg.provider)]
    /\ UNCHANGED exceptReg

\* schema_registry.get_schema_by_hash, lines 67-70.
RegQuery ==
    /\ reg.pc = "query"
    /\ reg' = [reg EXCEPT !.pc = "pick", !.items = QueryByHash(reg.table, reg.schema_hash)]
    /\ UNCHANGED exceptReg

\* schema_registry.get_schema_by_hash, lines 71-83: the first record, if it
\* is the provider's, becomes the spec; otherwise None.
RegPick ==
    /\ reg.pc = "pick"
    /\ LET item == IF reg.items # <<>> THEN Some(reg.items[1]) ELSE None
       IN reg' = [reg EXCEPT
                    !.pc = "done",
                    !.result = IF item.some /\ SchemaOwnedBy(item.v, reg.provider)
                               THEN Some([id |-> item.v.id, title |-> item.v.title,
                                          jwtGroup |-> item.v.jwtGroup,
                                          jsonSchema |-> reg.json_schema])
                               ELSE None]
    /\ UNCHANGED exceptReg

RegInit ==
    /\ \E table \in SchemaTables, provider \in {ProviderP, ProviderQ},
          json_schema \in SchemaTexts :
         reg = NewLookup(table, provider, json_schema)
    /\ ledger = IdleList.ledger
    /\ fleet = IdleList.fleet
    /\ lst = IdleList.lst
    /\ sess = IdleList.sess
    /\ rec = IdleLabel.rec
    /\ thing = IdleLabel.thing
    /\ upd = IdleLabel.upd
    /\ RestIdle({"reg"})

RegNext ==
    \/ RegHash
    \/ RegQuery
    \/ RegPick

RegSpec == RegInit /\ [][RegNext]_vars

\* C20: get_schema_by_hash never returns a spec of a record owned by a
\* provider other than the requested one, whatever records share the hash.
C20_NoForeignSchema ==
    (reg.pc = "done" /\ reg.result.some)
    => /\ reg.result.v.jwtGroup = Some(reg.provider)
       /\ \E i \in 1..Len(reg.table) :
            /\ reg.table[i].id = reg.result.v.id
            /\ reg.table[i].jwtGroup = Some(reg.provider)

\* A lookup answered with the provider's own spec while a record of another
\* provider shares the hash.
C20_Witness ==
    /\ reg.pc = "done" /\ reg.result.some
    /\ Len(reg.items) = 2
    /\ reg.items[2].jwtGroup # reg.items[1].jwtGroup

\* C17: get_device with a name outside the allow-list (an empty name, a
\* name with a space or another character outside [a-zA-Z0-9:_-]) fails with
\* InvalidArgument before any of the four stores is queried.
C17_BadNameRejectedFirst ==
    (get.pc \notin {"idle", "begin"}
        /\ (get.device_name = <<>>
            \/ \E i \in 1..Len(get.device_name) : get.device_name[i] \in {" ", "!"}))
    => /\ get.pc = "done"
       /\ get.result.kind = INVALID_CODE
       /\ ~get.ledger_called /\ ~get.schema_called
       /\ ~get.fleet_called /\ ~get.preview_called

\* A rejected lookup of a name with a space, for a device both stores hold.
C17_Witness ==
    /\ get.pc = "done" /\ get.device_name = <<"d", " ", "1">>
    /\ get.result.kind = INVALID_CODE
    /\ get.item.exists /\ get.thingExists

\* ------------------------------------------------ composite paging claims

\* C11: without a label filter, a call whose ledger phase returned a
\* continuation token returns that token with the ledger tag as nextPage and
\* does not query the fleet index, however many ledger items it collected.
C11_LedgerTokenReturnsAtOnce ==
    (Responded /\ lst.label = NoLabel /\ lst.ledger_called /\ lst.ledger_next.some)
    => /\ lst.result.nextPage = Some(<<"l">> \o lst.ledger_next.v)
       /\ ~lst.fleet_called

\* A call without a label filter answered with a ledger continuation while
\* its page was not full.
C11_Witness ==
    /\ Responded /\ lst.label = NoLabel /\ lst.ledger_called /\ lst.ledger_next.some
    /\ Len(lst.ledger_items) < lst.page_size
    /\ lst.result.nextPage = Some(<<"l">> \o lst.ledger_next.v)

\* The fleet phase of the current call has been decided.
PastFleetPhase == lst.pc \in {"ret", "done"}

\* C12: without a label filter, a ledger phase that returns k < page_size
\* items and no continuation is followed in the same call by a fleet query
\* with the canonical provider and size page_size - k >= 1; a call resuming
\* a fleet cursor asks the fleet index for page_size things.
C12_FleetSizeIsRemainder ==
    (PastFleetPhase /\ lst.label = NoLabel)
    => /\ (lst.ledger_called /\ ~lst.ledger_next.some
              /\ Len(lst.ledger_items) < lst.page_size)
          => /\ lst.fleet_called
             /\ lst.fleet_page_size = lst.page_size - Len(lst.ledger_items)
             /\ lst.fleet_page_size >= 1
             /\ lst.fleet_provider = (IF lst.provider = Some(UserProviderP)
                                      THEN Some(ProviderP) ELSE None)
       /\ Truthy(lst.fleet_page)
          => /\ lst.fleet_called
             /\ lst.fleet_page_size = lst.page_size

\* A page made of one ledger item and the fleet things that fill the rest,
\* asked for under the user-facing spelling of the provider.
C12_Witness ==
    /\ Responded /\ lst.label = NoLabel /\ lst.provider = Some(UserProviderP)
    /\ lst.ledger_called /\ ~lst.ledger_next.some
    /\ Len(lst.ledger_items) = 1 /\ lst.page_size = 2
    /\ lst.fleet_called /\ lst.fleet_page_size = 1 /\ Len(lst.fleet_items) = 1
    /\ lst.fleet_provider = Some(ProviderP)

\* The call's cursor is non-empty and carries the tag of neither store.
UnknownTag(page) == Truthy(page) /\ page.v[1] \notin {"l", "f"}

\* C14: a call with a non-empty cursor whose first character is neither l
\* nor f fails with InvalidArgument before either store is queried.
C14_UnknownTagRejected ==
    (UnknownTag(lst.page) /\ lst.pc # "begin")
    => /\ lst.pc = "done"
       /\ lst.result.kind = INVALID_CODE
       /\ ~lst.ledger_called /\ ~lst.fleet_called /\ lst.scans = 0

\* A call with an unknown tag that has been answered.
C14_Witness ==
    /\ UnknownTag(lst.page) /\ lst.pc = "done" /\ lst.result.kind = INVALID_CODE
    /\ Len(ledger) > 0 /\ Len(fleet) > 0

\* The inner cursor of a tagged composite cursor is not a continuation token
\* of the tagged store.
MalformedInner(page) ==
    /\ Truthy(page) /\ Len(page.v) >= 2
    /\ \/ page.v[1] = "l" /\ ~\E k \in 1..Len(Digits) : Tail(page.v) = _encode_page(k).v
       \/ page.v[1] = "f" /\ ~\E k \in 1..Len(Digits) : Tail(page.v) = FleetToken(k)

\* C15: a call with a tagged cursor whose inner cursor is malformed fails
\* with InvalidArgument, for either tag.
C15_MalformedInnerRejected ==
    (MalformedInner(lst.page) /\ lst.pc = "done")
    => lst.result.kind = INVALID_CODE

\* The stores that were handed a continuation token by the current call.
LedgerTokenForwarded == lst.ledger_called /\ Truthy(lst.ledger_page)
FleetTokenForwarded == lst.fleet_called /\ lst.fleet_page.some

\* C16: a returned nextPage is null or a token tagged l or f, and a call
\* forwards a continuation token to the ledger only for an l-cursor, to the
\* fleet index only for an f-cursor, and never to both.
C16_SingleSourceCursor ==
    /\ Responded
       => \/ lst.result.nextPage = None
          \/ /\ lst.result.nextPage.some
             /\ Len(lst.result.nextPage.v) >= 2
             /\ lst.result.nextPage.v[1] \in {"l", "f"}
    /\ ~(LedgerTokenForwarded /\ FleetTokenForwarded)
    /\ LedgerTokenForwarded => (lst.page.some /\ lst.page.v[1] = "l")
    /\ FleetTokenForwarded => (lst.page.some /\ lst.page.v[1] = "f")

\* A call resuming a ledger cursor that went on to the fleet index and was
\* answered with a fleet cursor.
C16_Witness ==
    /\ Responded /\ LedgerTokenForwarded /\ lst.fleet_called
    /\ lst.result.nextPage.some /\ lst.result.nextPage.v[1] = "f"

\* C19: the scan loop of device_ledger.list_devices stops only when the
\* items accumulated so far number at least page_size or the last scan
\* returned no continuation token, and returns that token encoded.
C19_ScanLoopFillsPage ==
    (lst.ledger_called /\ lst.scans > 0 /\ lst.pc \in {"fleet", "ret", "done"})
    => \/ Len(lst.ledger_items) >= lst.page_size
       \/ ~lst.ledger_next.some

\* ------------------------------------------------------ group-name codec

\* Largest length of a group name.
MaxGroupLen == 4

\* The canonical group names: non-empty, lowercase, without spaces.
CanonicalNames == UNION {Strings({"a", "b", "-"}, n) : n \in 1..MaxGroupLen}

\* repo._keycloak_group_name: the first character as it is; each inner
\* hyphen as a space unless both its neighbours are hyphens; the last
\* character unless it is a hyphen.
_keycloak_group_name(group) ==
    LET n == Len(group)
        inner == [k \in 1..(n - 2) |->
                    LET i == k + 1
                        is_space == group[i] = "-"
                                    /\ (group[i - 1] # "-" \/ group[i + 1] # "-")
                    IN IF is_space THEN " " ELSE group[i]]
    IN <<group[1]>> \o inner \o (IF group[n] # "-" THEN <<group[n]>> ELSE <<>>)

\* repo.list_providers, line 181: the search text handed to Keycloak.
GrpKeycloak ==
    /\ grp.pc = "start"
    /\ grp' = [grp EXCEPT !.pc = "keycloak", !.kc = _keycloak_group_name(grp.g)]
    /\ UNCHANGED exceptGrp

\* repo.list_providers, line 186: a Keycloak group name made canonical, and
\* the canonical form of that again.
GrpCanonicalize ==
    /\ grp.pc = "keycloak"
    /\ LET back == _canonicalize_group_name(grp.kc)
       IN grp' = [grp EXCEPT !.pc = "done", !.back = back,
                             !.twice = _canonicalize_group_name(back)]
    /\ UNCHANGED exceptGrp

GroupInit ==
    /\ \E g \in CanonicalNames :
         grp = [pc |-> "start", g |-> g, kc |-> <<>>, back |-> <<>>, twice |-> <<>>]
    /\ ledger = IdleList.ledger
    /\ fleet = IdleList.fleet
    /\ lst = IdleList.lst
    /\ sess = IdleList.sess
    /\ rec = IdleLabel.rec
    /\ thing = IdleLabel.thing
    /\ upd = IdleLabel.upd
    /\ RestIdle({"grp"})

GroupNext ==
    \/ GrpKeycloak
    \/ GrpCanonicalize

GroupSpec == GroupInit /\ [][GroupNext]_vars

\* C24: for a non-empty canonical group name g, _keycloak_group_name(g) is
\* g with its hyphens replaced by spaces and nothing added or dropped,
\* canonicalising that gives g back, and canonicalising twice changes
\* nothing.  Stated here for the names that neither start nor end with a
\* hyphen.
C24_GroupNameRoundTrip ==
    (grp.pc = "done" /\ grp.g[1] # "-" /\ grp.g[Len(grp.g)] # "-")
    => /\ grp.kc = [i \in 1..Len(grp.g) |-> IF grp.g[i] = "-" THEN " " ELSE grp.g[i]]
       /\ grp.back = grp.g
       /\ grp.twice = grp.back

\* C27: without a label filter, once a response of the sequence carried a
\* fleet-phase item or an f-tagged cursor, no later call queries the ledger
\* and no later response carries a ledger item or an l-tagged cursor.
C27_LedgerPhasePrecedesFleetPhase ==
    (sess.fleet_seen /\ lst.label = NoLabel)
    => /\ ~lst.ledger_called
       /\ lst.ledger_items = <<>>
       /\ ~(lst.next_page.some /\ lst.next_page.v[1] = "l")
       /\ ~(lst.result.nextPage.some /\ lst.result.nextPage.v[1] = "l")

\* A walk from the first page that returned ledger items, then fleet items
\* with an f-cursor, and has answered the call that passed that cursor on.
C27_Witness ==
    /\ sess.fleet_seen /\ sess.fromStart /\ lst.label = NoLabel
    /\ lst.pc = "done" /\ lst.result.kind = "ok"
    /\ lst.fleet_called /\ lst.fleet_items # <<>>
    /\ Len(sess.returned) > Len(lst.fleet_items) + 1
    /\ \E i \in 1..Len(ledger) : ~ledger[i].provStatus /\ sess.returned[1] = ledger[i].serialNumber

\* C28: a call with a name_like outside the allow-list fails with
\* InvalidArgument, whatever the label filter, the cursor and the stores
\* hold.
C28_BadNameLikeRejected ==
    (lst.pc = "done" /\ lst.name_like.some
        /\ ~device_name_regex_fullmatch(lst.name_like.v))
    => lst.result.kind = INVALID_CODE

\* ------------------------------------------- service-account token cache

\* Largest number of wrapped calls in one process.
MaxTokenCalls == 4

\* No token: _cached_token = None, or no token fetched.
NoToken == 0

\* What an attempt of the wrapped request can do: return, raise
\* requests.HTTPError with status 401 or with another status, or raise
\* another exception.
Unauthorized == "HTTPError401"
OtherStatus == "HTTPError500"
OtherException == "ConnectionError"
AttemptOutcomes == {"ok", Unauthorized, OtherStatus, OtherException}

\* What fetching a token can do.
TokenEndpointError == "TokenEndpointError"

\* A handler that swallows every HTTPError.
SwallowedByWrapper_AnyStatus(outcome) == outcome \in {Unauthorized, OtherStatus}

\* keycloak_api._use_service_token, lines 28-30: the failures of the first
\* attempt that the wrapper swallows.
SwallowedByWrapper(outcome) == outcome = Unauthorized

NewTokenCall(calls) ==
    [pc |-> "check", calls |-> calls, had_cache |-> FALSE, attempts |-> 0,
     refreshes |-> 0, used |-> <<>>, first |-> "none", fetched |-> NoToken,
     result |-> "none"]

\* A wrapped function is called.
TokCall ==
    /\ tok.pc \in {"idle", "done"}
    /\ tok.calls < MaxTokenCalls
    /\ tok' = NewTokenCall(tok.calls + 1)
             @@ [cached_token |-> tok.cached_token, issued |-> tok.issued]
    /\ UNCHANGED exceptTok

\* Lines 25-30: with a cached token, the first attempt.
TokCached ==
    /\ tok.pc = "check"
    /\ tok.cached_token # NoToken
    /\ \E outcome \in AttemptOutcomes :
         LET call == [tok EXCEPT !.had_cache = TRUE, !.attempts = @ + 1,
                                 !.used = Append(@, tok.cached_token),
                                 !.first = outcome]
         IN tok' = IF outcome = "ok" THEN [call EXCEPT !.pc = "done", !.result = "ok"]
                   ELSE IF SwallowedByWrapper(outcome) THEN [call EXCEPT !.pc = "refresh"]
                   ELSE [call EXCEPT !.pc = "done", !.result = outcome]
    /\ UNCHANGED exceptTok

\* Line 25 without a cached token.
TokUncached ==
    /\ tok.pc = "check"
    /\ tok.cached_token = NoToken
    /\ tok' = [tok EXCEPT !.pc = "refresh"]
    /\ UNCHANGED exceptTok

\* Line 32: _get_service_account_token(); the assignment to the cache
\* happens only if it returns.
TokRefresh ==
    /\ tok.pc = "refresh"
    /\ \/ tok' = [tok EXCEPT !.refreshes = @ + 1, !.issued = @ + 1,
                             !.fetched = tok.issued + 1,
                             !.cached_token = tok.issued + 1,
                             !.pc = "retry"]
       \/ tok' = [tok EXCEPT !.refreshes = @ + 1, !.pc = "done",
                             !.result = TokenEndpointError]
    /\ UNCHANGED exceptTok

\* Line 33: the attempt with the token just fetched; whatever it does is
\* the call's outcome.
TokRetry ==
    /\ tok.pc = "retry"
    /\ \E outcome \in AttemptOutcomes :
         tok' = [tok EXCEPT !.attempts = @ + 1,
                            !.used = Append(@, tok.cached_token),
                            !.pc = "done", !.result = outcome]
    /\ UNCHANGED exceptTok

TokenInit ==
    /\ \E cached \in {NoToken, 1} :
         tok = [pc |-> "idle", calls |-> 0, had_cache |-> FALSE, attempts |-> 0,
                refreshes |-> 0, used |-> <<>>, first |-> "none", fetched |-> NoToken,
                result |-> "none", cached_token |-> cached, issued |-> cached]
    /\ ledger = IdleList.ledger
    /\ fleet = IdleList.fleet
    /\ lst = IdleList.lst
    /\ sess = IdleList.sess
    /\ rec = IdleLabel.rec
    /\ thing = IdleLabel.thing
    /\ upd = IdleLabel.upd
    /\ RestIdle({"tok"})

TokenNext ==
    \/ TokCall
    \/ TokCached
    \/ TokUncached
    \/ TokRefresh
    \/ TokRetry

TokenSpec == TokenInit /\ [][TokenNext]_vars

TokReturned == tok.pc = "done"

\* C29: a wrapped call contacts the token endpoint at most once and
\* attempts the request at most twice; with a cached token, a 401 of the
\* first attempt is followed by one refresh and, the refresh having
\* returned, one retry with the new token; any other failure of the first
\* attempt propagates with no refresh and no retry; once a refresh has
\* returned, the cache holds the token it fetched.
C29_TokenCache ==
    /\ tok.pc # "idle" => (tok.refreshes <= 1 /\ tok.attempts <= 2)
    /\ (TokReturned /\ tok.had_cache /\ tok.first = Unauthorized)
         => /\ tok.refreshes = 1
            /\ tok.fetched # NoToken
                 => /\ tok.attempts = 2
                    /\ tok.used[2] = tok.fetched /\ tok.used[2] # tok.used[1]
            /\ tok.fetched = NoToken
                 => (tok.attempts = 1 /\ tok.result = TokenEndpointError)
    /\ (TokReturned /\ tok.had_cache /\ tok.first \in {OtherStatus, OtherException})
         => (tok.refreshes = 0 /\ tok.attempts = 1 /\ tok.result = tok.first)
    /\ (tok.pc # "idle" /\ tok.fetched # NoToken) => tok.cached_token = tok.fetched

\* A later call of the process whose cached token was refused with 401 and
\* whose retry with a fresh token succeeded.
C29_Witness ==
    /\ TokReturned /\ tok.calls >= 2 /\ tok.had_cache
    /\ tok.first = Unauthorized /\ tok.attempts = 2 /\ tok.refreshes = 1
    /\ tok.result = "ok" /\ tok.cached_token = tok.fetched

\* C30: every call of the listing ends, for every page size (none
\* included) and every filter, also when no scan returns a matching item:
\* the scan loop does not go round for ever.
C30_ListingTerminates == (lst.pc = "begin") ~> (lst.pc = "done")

\* A call without a page size whose loop went round more than once and
\* whose scans returned no item, ended.
C30_Witness ==
    /\ lst.pc = "done" /\ lst.page_size = NoPageSize /\ lst.name_like.some
    /\ lst.scans >= 2 /\ lst.ledger_items = <<>> /\ lst.result.kind = "ok"

\* ------------------------------------------------- single-device lookup

\* The stream-preview fetch of the current lookup failed.
FetchFailed == get.preview_called /\ get.fetch \in {INTERNAL_ERROR_CODE, PreviewError}

\* C21: a lookup whose stream-preview fetch failed, in whatever way, still
\* returns the Device, with the placeholder as preview and no timestamp.
C21_PreviewFailureSuppressed ==
    (get.pc = "done" /\ FetchFailed)
    => /\ get.result.kind = "ok"
       /\ get.result.preview.text = PreviewErrorText
       /\ ~get.result.preview.ts

\* C22: the full lookup of a provisioned ledger record whose policy document
\* has no iot:Publish statement fails with InternalError.
C22_MissingPublishIsInternalError ==
    (get.pc = "done" /\ ~get.brief_repr /\ get.fleet_called
        /\ get.item.exists /\ get.item.provStatus /\ ~get.item.publish)
    => get.result.kind = INTERNAL_ERROR_CODE

\* The ledger record of the looked-up device names another provider than
\* the call's provider scope, or another organization than its organization
\* scope.
OutOfScope ==
    /\ get.item.exists
    /\ \/ get.provider = Some(UserProviderP) /\ get.item.jwtGroup = Some(ProviderQ)
       \/ get.provider = Some(ProviderQ) /\ get.item.jwtGroup = Some(ProviderP)
       \/ get.organization = Some(UserOrgO) /\ get.item.org = Some(OrgX)

\* C23: a lookup of a device out of the call's scope fails with NotFound,
\* with the same result as for an absent device, and fetches nothing of the
\* device from the fleet index, the schema registry or the stream preview.
C23_OutOfScopeIsNotFound ==
    (get.pc = "done" /\ OutOfScope /\ get.result.kind # INVALID_CODE)
    => /\ get.result = GetRaised([get EXCEPT !.item = NoItem], NOT_FOUND_CODE).result
       /\ ~get.fleet_called /\ ~get.schema_called /\ ~get.preview_called

\* A lookup refused for its organization scope alone, of a device that both
\* stores hold.
C23_Witness ==
    /\ get.pc = "done" /\ get.result.kind = NOT_FOUND_CODE
    /\ get.provider = Some(UserProviderP) /\ get.item.jwtGroup = Some(ProviderP)
    /\ get.organization = Some(UserOrgO) /\ get.item.org = Some(OrgX)
    /\ get.item.exists /\ get.thingExists /\ get.item.json_schema

====
